---- MODULE Spec2Model ----
(***************************************************************************)
(* Checkpoint resolver of nougat/utils/checkpoint.py: get_checkpoint       *)
(* resolves a checkpoint directory and, when it looks incomplete,          *)
(* download_checkpoint fetches the five release artifacts into it.         *)
(*                                                                         *)
(* A path is the sequence of its components, relative to the working       *)
(* directory <<>>.  The filesystem maps every path of a bounded universe   *)
(* to a node: absent, a directory, or a regular file with its bytes.       *)
(* Filesystem operations succeed; the network may fail.                    *)
(***************************************************************************)
EXTENDS Integers, Sequences, FiniteSets, TLC

\* ---------------------------------------------------------------- bounds
MaxCalls == 2          \* get_checkpoint calls in one behaviour
MaxExtra == 1          \* names other than the artifacts that may sit in a directory

\* ------------------------------------------------------------- constants
BASE_URL == "https://github.com/facebookresearch/nougat/releases/download"
MODEL_TAG == "0.1.0-small"
SanityLimit == 15      \* len(binary_file) > 15
MinEntries == 5        \* len(os.listdir(checkpoint)) < 5

\* files of download_checkpoint, in list order
files == << "config.json", "pytorch_model.bin", "special_tokens_map.json",
            "tokenizer.json", "tokenizer_config.json" >>

ArtifactNames == { files[i] : i \in 1..Len(files) }

ExtraNames == << "model.ckpt", "README.md", "notes.txt", "run.log", "old.bak", "tmp.part" >>

Extras == { ExtraNames[i] : i \in 1..MaxExtra }

\* ------------------------------------------------------------ filesystem
AbsentNode == [kind |-> "absent", data |-> << >>]

DirNode == [kind |-> "dir", data |-> << >>]

FileNode(bytes) == [kind |-> "file", data |-> bytes]

Cwd == << >>

EDir == << "e" >>

EFile == << "e", "model.ckpt" >>

VDir == << "v" >>

\* torch.hub.get_dir()
TorchHubDir == << "hub" >>

\* torch.hub.get_dir() + "/nougat"
DefaultDir == Append(TorchHubDir, "nougat")

Targets == { EDir, EFile, VDir, DefaultDir }

Paths ==
    Targets \cup { Cwd, TorchHubDir }
        \cup { Append(t, n) : t \in Targets, n \in ArtifactNames }
        \cup { Append(EDir, x) : x \in Extras }

\* Path.parent; the parent of "." is "."
Parent(p) == IF p = << >> THEN p ELSE SubSeq(p, 1, Len(p) - 1)

\* Path.exists
Exists(f, p) == f[p].kind # "absent"

\* Path.is_file
IsFile(f, p) == f[p].kind = "file"

\* os.listdir
ListDir(f, d) == { p \in Paths : p # << >> /\ Parent(p) = d /\ Exists(f, p) }

Ancestors(p) == { SubSeq(p, 1, k) : k \in 0..Len(p) }

\* Path.mkdir(parents=True, exist_ok=True)
Mkdir(f, d) ==
    [p \in Paths |-> IF p \in Ancestors(d) /\ ~Exists(f, p) THEN DirNode ELSE f[p]]

\* Path.write_bytes
WriteBytesIfAbsent(f, p, bytes) ==
    IF Exists(f, p) THEN f ELSE [f EXCEPT ![p] = FileNode(bytes)]

WriteBytesClipped(f, p, bytes) ==
    [f EXCEPT ![p] = FileNode(SubSeq(bytes, 1, SanityLimit))]

WriteBytes(f, p, bytes) == [f EXCEPT ![p] = FileNode(bytes)]

\* ---------------------------------------------------------------- values
\* checkpoint_path / os.environ value: None, a str, or a Path object
None == [kind |-> "none", comps |-> << >>]

Str(p) == [kind |-> "str", comps |-> p]

PathObj(p) == [kind |-> "path", comps |-> p]

\* Python truthiness: None and "" are falsy, every Path object is truthy
Truthy(v) == \/ v.kind = "path"
             \/ v.kind = "str" /\ v.comps # << >>

\* ---------------------------------------------------------------- network
\* f"{BASE_URL}/{MODEL_TAG}/{file}"
DownloadUrlNoTag(file) == << BASE_URL, file >>

DownloadUrl(file) == << BASE_URL, MODEL_TAG, file >>

IndexOf(file) == CHOOSE i \in 1..Len(files) : files[i] = file

\* what the release serves for an artifact: more than SanityLimit bytes
LongBody(file) == [k \in 1..(SanityLimit + 1) |-> IndexOf(file)]

\* a body of exactly SanityLimit bytes
ShortBody == [k \in 1..SanityLimit |-> 0]

\* content of files that are on disk before the first call
OldBytes == [k \in 1..(SanityLimit + 1) |-> 9]

Statuses == { 200, 404 }

Responses(file) ==
    { [status |-> s, body |-> b] : s \in Statuses, b \in { ShortBody, LongBody(file) } }

\* no request made yet in this call
NoResponse == [status |-> 0, body |-> << >>]

\* requests.get or iter_content raised instead of answering
RequestFailed == [status |-> -1, body |-> << >>]

\* ------------------------------------------------------------------ state
VARIABLES
    fs,               \* the filesystem: Paths -> node
    env,              \* os.environ["NOUGAT_CHECKPOINT"], None when unset
    checkpoint_path,  \* the argument the caller passes
    download,         \* the download argument of the current call
    resolved,         \* Path(checkpoint_path or os.environ.get(...)), line 58
    envRead,          \* os.environ.get was evaluated in the current call
    checkpoint,       \* local variable checkpoint after line 63
    n0,               \* entries of checkpoint when the call started, -1 if absent
    entries0,         \* os.listdir(checkpoint) when the call started
    prev,             \* how the previous call ended: "none" or its final pc
    pass,             \* download_checkpoint was entered in the current call
    pc,               \* "idle", "loop", "returned", "raised", "crashed"
    idx,              \* position of the for loop in files
    requests,         \* URLs requested by the current call, in order
    last,             \* response to the latest request
    dropped,          \* artifacts of the current call that failed the sanity check
    calls             \* calls made so far

vars == << fs, env, checkpoint_path, download, resolved, envRead, checkpoint,
           n0, entries0, prev, pass, pc, idx, requests, last, dropped, calls >>

\* ------------------------------------------------------- get_checkpoint
\* checkpoint_path or os.environ.get("NOUGAT_CHECKPOINT", torch.hub.get_dir() + "/nougat")
ResolveEnvFirst(arg, e) ==
    IF e.kind # "none" THEN e.comps
    ELSE IF Truthy(arg) THEN arg.comps ELSE DefaultDir

Resolve(arg, e) ==
    IF Truthy(arg) THEN arg.comps
    ELSE IF e.kind # "none" THEN e.comps ELSE DefaultDir

\* if checkpoint.exists() and checkpoint.is_file(): checkpoint = checkpoint.parent
FileToParentNever(f, p) == p

FileToParent(f, p) == IF Exists(f, p) /\ IsFile(f, p) THEN Parent(p) ELSE p

\* download and (not checkpoint.exists() or len(os.listdir(checkpoint)) < 5)
NeedsDownloadAtMost(f, d, dl) ==
    dl /\ (~Exists(f, d) \/ Cardinality(ListDir(f, d)) <= MinEntries)

NeedsDownloadAbsentOnly(f, d, dl) == dl /\ ~Exists(f, d)

NeedsDownloadAlways(f, d, dl) == dl

NeedsDownload(f, d, dl) ==
    dl /\ (~Exists(f, d) \/ Cardinality(ListDir(f, d)) < MinEntries)

\* if len(binary_file) > 15
SanityCheckAtLeast(bytes) == Len(bytes) >= SanityLimit

SanityCheck(bytes) == Len(bytes) > SanityLimit

Finished == pc \in { "idle", "returned", "raised", "crashed" }

\* get_checkpoint up to the first loop iteration (lines 58-66, 40-47)
Call(dl) ==
    /\ Finished
    /\ calls < MaxCalls
    /\ LET r  == Resolve(checkpoint_path, env)
           cp == FileToParent(fs, r)
       IN  /\ resolved' = r
           /\ envRead' = ~Truthy(checkpoint_path)
           /\ checkpoint' = cp
           /\ n0' = IF Exists(fs, cp) THEN Cardinality(ListDir(fs, cp)) ELSE -1
           /\ entries0' = ListDir(fs, cp)
           /\ IF NeedsDownload(fs, cp, dl)
              THEN /\ fs' = Mkdir(fs, cp)
                   /\ pass' = TRUE
                   /\ pc' = "loop"
              ELSE /\ fs' = fs
                   /\ pass' = FALSE
                   /\ pc' = "returned"
    /\ download' = dl
    /\ idx' = 1
    /\ requests' = << >>
    /\ last' = NoResponse
    /\ dropped' = {}
    /\ calls' = calls + 1
    /\ prev' = IF calls = 0 THEN "none" ELSE pc
    /\ UNCHANGED << env, checkpoint_path >>

\* one iteration of the for loop whose request completes (lines 48-52);
\* the status of the response is never looked at
FetchOk(resp) ==
    /\ pc = "loop"
    /\ LET file == files[idx]
       IN  /\ resp \in Responses(file)
           /\ requests' = Append(requests, DownloadUrl(file))
           /\ IF SanityCheck(resp.body)
              THEN /\ fs' = WriteBytes(fs, Append(checkpoint, file), resp.body)
                   /\ dropped' = dropped
              ELSE /\ fs' = fs
                   /\ dropped' = dropped \cup { file }
    /\ last' = resp
    /\ idx' = idx + 1
    /\ pc' = IF idx = Len(files) THEN "returned" ELSE "loop"
    /\ UNCHANGED << env, checkpoint_path, download, resolved, envRead,
                    checkpoint, n0, entries0, prev, pass, calls >>

FetchErrorSwallowed ==
    /\ pc = "loop"
    /\ requests' = Append(requests, DownloadUrl(files[idx]))
    /\ last' = RequestFailed
    /\ idx' = idx + 1
    /\ pc' = IF idx = Len(files) THEN "returned" ELSE "loop"
    /\ UNCHANGED << fs, env, checkpoint_path, download, resolved, envRead,
                    checkpoint, n0, entries0, prev, pass, dropped, calls >>

\* one iteration whose request raises (connection error, timeout): nothing
\* catches it, so it leaves download_checkpoint and get_checkpoint
FetchError ==
    /\ pc = "loop"
    /\ requests' = Append(requests, DownloadUrl(files[idx]))
    /\ last' = RequestFailed
    /\ pc' = "raised"
    /\ UNCHANGED << fs, env, checkpoint_path, download, resolved, envRead,
                    checkpoint, n0, entries0, prev, pass, idx, dropped, calls >>

\* the process dies between two iterations
Crash ==
    /\ pc = "loop"
    /\ pc' = "crashed"
    /\ UNCHANGED << fs, env, checkpoint_path, download, resolved, envRead,
                    checkpoint, n0, entries0, prev, pass, idx, requests, last, dropped, calls >>

\* ------------------------------------------------------- initial states
\* only the working directory exists
BareFs == [p \in Paths |-> IF p = Cwd THEN DirNode ELSE AbsentNode]

\* directory d exists and holds the entries S as files with old content
Populate(f, d, S) ==
    [p \in Paths |->
        IF p \in Ancestors(d) THEN DirNode
        ELSE IF p \in S THEN FileNode(OldBytes)
        ELSE f[p]]

Children(d) == { p \in Paths : p # << >> /\ Parent(p) = d /\ p \notin Targets \cup { TorchHubDir } }

\* the artifacts already on disk: a tail of the list files
TailSets == { { files[i] : i \in k..Len(files) } : k \in 1..(Len(files) + 1) }

\* the caller names EDir or a file in it; EDir is absent, or holds a tail of
\* the artifacts and any of the other names
InitFetch ==
    /\ checkpoint_path \in { Str(EDir), Str(EFile) }
    /\ env = None
    /\ fs \in { BareFs }
          \cup { Populate(BareFs, EDir, { Append(EDir, n) : n \in A \cup X }) :
                    A \in TailSets, X \in SUBSET Extras }

\* any argument and environment; each candidate directory is absent or
\* complete, and EDir holds the file EFile when it exists
InitResolve ==
    /\ checkpoint_path \in { None, Str(Cwd), Str(VDir), PathObj(EFile) }
    /\ env \in { None, Str(VDir), Str(EFile) }
    /\ \E D \in { {}, { EDir, VDir, DefaultDir } } :
          fs = [p \in Paths |->
                  IF p = Cwd \/ \E d \in D : p \in Ancestors(d) THEN DirNode
                  ELSE IF p \in Children(EDir) \cup { EFile } /\ EDir \in D
                       THEN FileNode(OldBytes)
                  ELSE IF \E d \in D : p \in Children(d) THEN FileNode(OldBytes)
                  ELSE AbsentNode]

Rest ==
    /\ download = FALSE
    /\ resolved = Cwd
    /\ envRead = FALSE
    /\ checkpoint = Cwd
    /\ n0 = -1
    /\ entries0 = {}
    /\ prev = "none"
    /\ pass = FALSE
    /\ pc = "idle"
    /\ idx = 1
    /\ requests = << >>
    /\ last = NoResponse
    /\ dropped = {}
    /\ calls = 0

Init == InitFetch /\ Rest

InitR == InitResolve /\ Rest

Next ==
    \/ \E dl \in BOOLEAN : Call(dl)
    \/ \E f \in ArtifactNames : \E resp \in Responses(f) : FetchOk(resp)
    \/ FetchError
    \/ Crash

Spec == Init /\ [][Next]_vars

SpecResolve == InitR /\ [][Next]_vars

TypeOK ==
    /\ \A p \in Paths : Exists(fs, p) => fs[Parent(p)].kind = "dir"
    /\ checkpoint \in Paths
    /\ idx \in 1..(Len(files) + 1)

\* ------------------------------------------------------------ properties
\* the five artifact names and their URLs as the documentation lists them
FiveNames == << "config.json", "pytorch_model.bin", "special_tokens_map.json",
                "tokenizer.json", "tokenizer_config.json" >>

FiveUrls == [i \in 1..5 |-> << BASE_URL, MODEL_TAG, FiveNames[i] >>]

FivePaths(d) == { Append(d, FiveNames[i]) : i \in 1..5 }

Count(f, d) == Cardinality(ListDir(f, d))

IsPrefix(s, t) == Len(s) <= Len(t) /\ s = SubSeq(t, 1, Len(s))

\* the step is a call of get_checkpoint
CallStep == calls' = calls + 1

\* the step is a loop iteration: it issues one request
RequestStep == pc = "loop" /\ Len(requests') = Len(requests) + 1

\* the step is a loop iteration whose request was answered
AnsweredStep == RequestStep /\ last' # RequestFailed

\* every artifact requested so far in this call and not dropped holds what was served
WrittenSoFar ==
    \A i \in 1..5 :
        (i < idx /\ FiveNames[i] \notin dropped)
            => fs[Append(checkpoint, FiveNames[i])] = FileNode(LongBody(FiveNames[i]))

\* C1: a call enters the fetch pass exactly when download is true and the
\* target is absent or has fewer than 5 entries; any other call returns at
\* once with the filesystem untouched and no request made.
C1_FetchIff ==
    [][ /\ CallStep =>
            (pass' <=> (download' /\ (~Exists(fs, checkpoint') \/ Count(fs, checkpoint') < 5)))
        /\ ~pass' => (pc' = "returned" /\ fs' = fs /\ requests' = << >>) ]_vars

C1_Witness ==
    /\ pc = "returned" /\ download /\ ~pass /\ n0 >= 5
    /\ entries0 \ FivePaths(checkpoint) # {}

\* C2 as stated: a call on an absent target with download enabled issues
\* exactly the five requests, however the call ends.
C2_Original ==
    (pc \in { "returned", "raised" } /\ pass /\ n0 = -1) => requests = FiveUrls

\* C2 amended: on an absent target the directory and its parents exist before
\* the first request; the requests are the five URLs in list order, stopping at
\* the first request that raises, and all five when the call returns.
C2_CreateThenFetch ==
    (pass /\ n0 = -1) =>
        /\ \A a \in Ancestors(checkpoint) : fs[a].kind = "dir"
        /\ IsPrefix(requests, FiveUrls)
        /\ pc = "loop" => Len(requests) = idx - 1
        /\ pc = "raised" => Len(requests) = idx
        /\ pc = "returned" => requests = FiveUrls

C2_Witness ==
    pc = "returned" /\ pass /\ n0 = -1 /\ requests = FiveUrls /\ Len(checkpoint) = 2

\* C3: in a loop iteration whose request is answered, a body longer than 15
\* bytes becomes the content of <target>/<file> and nothing else changes; a
\* body of 15 bytes or less changes nothing on disk, raises nothing, and the
\* loop goes on to the next artifact.
C3_SanityCheck ==
    [][ AnsweredStep =>
          /\ IF Len(last'.body) > 15
             THEN fs' = [fs EXCEPT ![Append(checkpoint, FiveNames[idx])] = FileNode(last'.body)]
             ELSE fs' = fs
          /\ idx' = idx + 1
          /\ pc' = IF idx < 5 THEN "loop" ELSE "returned" ]_vars

C3_Witness ==
    /\ pc = "returned" /\ pass
    /\ \E i, j \in 1..5 :
          /\ FiveNames[i] \in dropped
          /\ fs[Append(checkpoint, FiveNames[i])] = FileNode(OldBytes)
          /\ i < j
          /\ FiveNames[j] \notin dropped
          /\ fs[Append(checkpoint, FiveNames[j])] = FileNode(LongBody(FiveNames[j]))

\* C4: when the resolved path is an existing regular file, the target is its
\* parent directory, the parent's entry count decides whether the pass runs,
\* and the artifacts are written into the parent.
C4_FileParent ==
    /\ [][ (CallStep /\ IsFile(fs, resolved')) =>
              /\ checkpoint' = Parent(resolved')
              /\ pass' <=> (download' /\ Count(fs, Parent(resolved')) < 5) ]_vars
    /\ [](  (calls > 0 /\ IsFile(fs, resolved)) =>
              /\ checkpoint = Parent(resolved)
              /\ \A i \in 1..5 :
                    (pass /\ i < idx /\ FiveNames[i] \notin dropped)
                        => fs[Append(Parent(resolved), FiveNames[i])]
                               = FileNode(LongBody(FiveNames[i])) )

C4_Witness ==
    /\ pc = "returned" /\ pass /\ dropped = {}
    /\ IsFile(fs, resolved) /\ checkpoint = Parent(resolved) /\ checkpoint # resolved
    /\ \A p \in FivePaths(checkpoint) : IsFile(fs, p)

\* C5 as stated: the explicit argument wins whenever one is supplied, and the
\* environment variable is read only when none is supplied.
C5_Original ==
    calls > 0 =>
        /\ checkpoint_path.kind # "none" => resolved = checkpoint_path.comps
        /\ envRead <=> checkpoint_path.kind = "none"

\* C5 amended: the explicit argument wins when it is supplied and is not an
\* empty string; otherwise the environment variable when set; otherwise the
\* hub directory plus "nougat".  The environment variable is read exactly when
\* the argument is None or an empty string.
C5_Priority ==
    calls > 0 =>
        LET empty == checkpoint_path.kind = "str" /\ checkpoint_path.comps = << >>
            given == checkpoint_path.kind # "none" /\ ~empty
        IN  /\ given => resolved = checkpoint_path.comps
            /\ (~given /\ env.kind # "none") => resolved = env.comps
            /\ (~given /\ env.kind = "none") => resolved = << "hub", "nougat" >>
            /\ envRead <=> ~given

C5_Witness ==
    /\ calls > 0
    /\ checkpoint_path = Str(<< >>)
    /\ env.kind # "none"
    /\ resolved = env.comps

\* the directory d holds the five artifacts with the served content
HoldsFive(f, d) ==
    \A i \in 1..5 : f[Append(d, FiveNames[i])] = FileNode(LongBody(FiveNames[i]))

\* C6: a call with download enabled on an existing empty directory that
\* returns with all five payloads longer than 15 bytes leaves exactly the five
\* files with the served content, and every later call on that target makes
\* no request and leaves the filesystem as it is.
C6_Idempotent ==
    /\ []( (pc = "returned" /\ pass /\ n0 = 0 /\ dropped = {}) =>
              /\ HoldsFive(fs, checkpoint)
              /\ ListDir(fs, checkpoint) = FivePaths(checkpoint) )
    /\ [][ ( /\ CallStep
             /\ pc = "returned"
             /\ HoldsFive(fs, checkpoint)
             /\ ListDir(fs, checkpoint) = FivePaths(checkpoint)
             /\ checkpoint' = checkpoint ) =>
                /\ ~pass'
                /\ pc' = "returned"
                /\ requests' = << >>
                /\ fs' = fs ]_vars

C6_Witness ==
    /\ calls = 2 /\ prev = "returned" /\ pc = "returned" /\ download /\ ~pass
    /\ HoldsFive(fs, checkpoint)
    /\ entries0 = FivePaths(checkpoint)

\* C7 as stated: a call with download enabled on a directory of exactly 4
\* entries requests all five artifacts, however the call ends.
C7_Original ==
    (pc \in { "returned", "raised" } /\ download /\ n0 = 4) => Len(requests) = 5

\* C7 amended: with exactly 4 entries and download enabled the pass runs from
\* the first artifact; each artifact is requested whether or not a file of its
\* name is present, every payload longer than 15 bytes replaces that file, and
\* all five are requested unless a request raises, which ends the pass there.
C7_FullRefetch ==
    (calls > 0 /\ download /\ n0 = 4) =>
        /\ pass
        /\ IsPrefix(requests, FiveUrls)
        /\ pc \in { "loop", "crashed" } => Len(requests) = idx - 1
        /\ pc = "raised" => Len(requests) = idx
        /\ pc = "returned" => requests = FiveUrls
        /\ WrittenSoFar

C7_Witness ==
    /\ pc = "returned" /\ pass /\ n0 = 4 /\ dropped = {}
    /\ entries0 \subseteq FivePaths(checkpoint)
    /\ HoldsFive(fs, checkpoint)

\* C8 as stated: after a pass in which all five requests complete with
\* payloads longer than 15 bytes, the target holds the five artifacts and no
\* other entry.
C8_Original ==
    (pc = "returned" /\ pass /\ dropped = {}) =>
        /\ HoldsFive(fs, checkpoint)
        /\ ListDir(fs, checkpoint) = FivePaths(checkpoint)

\* C8 amended: after such a pass the target holds the five artifacts with the
\* served content, and besides them exactly the entries of other names that
\* were there when the call started, which the pass leaves as they were.
C8_FiveAndOthers ==
    /\ []( (pc = "returned" /\ pass /\ dropped = {}) =>
              /\ HoldsFive(fs, checkpoint)
              /\ ListDir(fs, checkpoint) = FivePaths(checkpoint) \cup entries0 )
    /\ [][ pc = "loop" =>
              \A p \in Paths \ FivePaths(checkpoint) : fs'[p] = fs[p] ]_vars

C8_Witness ==
    /\ pc = "returned" /\ pass /\ dropped = {}
    /\ HoldsFive(fs, checkpoint)
    /\ entries0 \ FivePaths(checkpoint) # {}
    /\ Count(fs, checkpoint) > 5

\* the current call was cut short after writing some artifact
Interrupted ==
    /\ pc \in { "raised", "crashed" }
    /\ pass
    /\ \E i \in 1..5 : i < idx /\ FiveNames[i] \notin dropped

\* C9 as stated: after an interrupted pass the next call with download
\* enabled on the same target always runs the fetch pass again.
C9_Original ==
    [][ (Interrupted /\ CallStep /\ download' /\ checkpoint' = checkpoint) => pass' ]_vars

\* C9 amended: after an interrupted pass the next call with download enabled
\* runs the pass again exactly when the partially populated directory holds
\* fewer than 5 entries; the pass then starts over from the first artifact,
\* and when it returns all five were requested and every payload longer than
\* 15 bytes replaced its file.
C9_RetryIfFewer ==
    /\ [][ (Interrupted /\ CallStep /\ download' /\ checkpoint' = checkpoint) =>
              /\ pass' <=> Count(fs, checkpoint) < 5
              /\ pass' => (pc' = "loop" /\ idx' = 1 /\ requests' = << >>) ]_vars
    /\ []( (prev \in { "raised", "crashed" } /\ pass) =>
              /\ IsPrefix(requests, FiveUrls)
              /\ pc = "returned" => requests = FiveUrls
              /\ WrittenSoFar )

C9_Witness ==
    /\ calls = 2 /\ prev = "raised" /\ pc = "returned" /\ pass
    /\ dropped = {}
    /\ \E p \in entries0 : fs[p] # FileNode(OldBytes)
    /\ requests = FiveUrls

\* C10 as stated: a request that fails, by a connection error, a timeout or a
\* non-success status, raises out of the call and leaves the disk as it was.
C10_Original ==
    [][ (RequestStep /\ last'.status # 200) =>
            (pc' = "raised" /\ fs' = fs) ]_vars

\* C10 amended: a request that raises (connection error, timeout) ends the
\* call with the exception: the k-th file is not written, the artifacts after
\* it are not requested, nothing is retried and what was written stays.  A
\* non-success status raises nothing: its body is treated like any payload and
\* the loop goes on.
C10_ErrorPropagates ==
    /\ [][ (RequestStep /\ last' = RequestFailed) =>
              /\ pc' = "raised"
              /\ fs' = fs
              /\ idx' = idx
              /\ requests' = Append(requests, FiveUrls[idx]) ]_vars
    /\ [][ pc = "raised" => CallStep ]_vars
    /\ []( pc = "raised" =>
              /\ requests = SubSeq(FiveUrls, 1, idx)
              /\ WrittenSoFar )
    /\ [][ (AnsweredStep /\ last'.status # 200) =>
              /\ idx' = idx + 1
              /\ Len(last'.body) > 15 =>
                    fs'[Append(checkpoint, FiveNames[idx])] = FileNode(last'.body)
              /\ Len(last'.body) <= 15 => fs' = fs ]_vars

C10_Witness ==
    /\ pc = "raised" /\ idx = 3 /\ Len(requests) = 3
    /\ dropped = {}
    /\ HoldsFive(fs, checkpoint) = FALSE
    /\ fs[Append(checkpoint, FiveNames[1])] = FileNode(LongBody(FiveNames[1]))
    /\ fs[Append(checkpoint, FiveNames[2])] = FileNode(LongBody(FiveNames[2]))
    /\ ~Exists(fs, Append(checkpoint, FiveNames[3]))

====
